---- MODULE Spec2Model ----
(***************************************************************************)
(* Redditor agent (Devvit app): the conversation store of services/ai.ts   *)
(* (storeConversation, getConversationHistory over a Redis sorted set) and  *)
(* the PostSubmit / CommentCreate trigger handlers with the response       *)
(* generator they call.                                                    *)
(*                                                                         *)
(* Strings the code inspects character by character (event text, trigger   *)
(* keyword, question) are sequences of one-character strings; strings the  *)
(* code only passes along (reply texts, ids) are TLA+ strings.             *)
(***************************************************************************)
EXTENDS Integers, Sequences, FiniteSets, TLC

(***************************************************************************)
(* Bounds of the model                                                     *)
(***************************************************************************)
\* Date.now() takes the values 1..MaxClock
MaxClock == 3
\* storeConversation is called at most MaxAppends times in a behaviour
MaxAppends == 6
\* at most MaxEvents trigger events are delivered in a behaviour
MaxEvents == 2

(***************************************************************************)
(* Program constants                                                       *)
(***************************************************************************)
\* main.ts:309  `if (count > 5)`: the number of entries kept per user
KeepLatest == 5
\* main.ts:310  `zRemRangeByRank(key, 0, count - 6)`
TrimOffset == 6
\* main.ts:322  `zRange(key, 0, 4)`: the last rank read by the history
HistoryStop == 4

(***************************************************************************)
(* Characters and strings                                                  *)
(***************************************************************************)
\* UTF-16 code units of the characters the model uses
Code(c) ==
    CASE c = " "  -> 32
      [] c = "!"  -> 33
      [] c = "\"" -> 34
      [] c = "."  -> 46
      [] c = "?"  -> 63
      [] c = "A"  -> 65
      [] c = "K"  -> 75
      [] c = "S"  -> 83
      [] c = "a"  -> 97
      [] c = "b"  -> 98
      [] c = "k"  -> 107
      [] c = "s"  -> 115
      [] c = "w"  -> 119
      [] c = "x"  -> 120

\* String.prototype.toLowerCase on one character
LowerChar(c) ==
    CASE c = "A" -> "a"
      [] c = "K" -> "k"
      [] c = "S" -> "s"
      [] OTHER   -> c

toLowerCase(s) == [i \in 1..Len(s) |-> LowerChar(s[i])]

\* byte-wise comparison of two strings (sequences of characters)
RECURSIVE StrLess(_, _)
StrLess(s, t) ==
    IF t = <<>> THEN FALSE
    ELSE IF s = <<>> THEN TRUE
    ELSE IF Code(Head(s)) # Code(Head(t)) THEN Code(Head(s)) < Code(Head(t))
    ELSE StrLess(Tail(s), Tail(t))

\* String.prototype.includes
includes(s, t) ==
    \E i \in 0..(Len(s) - Len(t)) : SubSeq(s, i + 1, i + Len(t)) = t

\* String.prototype.trim: white space goes from both ends
RECURSIVE trimStart(_)
trimStart(s) ==
    IF s # <<>> /\ Head(s) = " " THEN trimStart(Tail(s)) ELSE s

RECURSIVE trimEnd(_)
trimEnd(s) ==
    IF s # <<>> /\ s[Len(s)] = " " THEN trimEnd(SubSeq(s, 1, Len(s) - 1)) ELSE s

trim(s) == trimEnd(trimStart(s))

(***************************************************************************)
(* new RegExp(triggerKeyword, 'gi'): the keyword is read as a pattern.     *)
(* The patterns of the model are made of literal characters, the wildcard   *)
(* `.` and the quantifier `?` after one character (greedy, zero or one).    *)
(***************************************************************************)
\* the pattern does not compile: a quantifier with nothing to repeat
RegExpThrows(pattern) == pattern # <<>> /\ pattern[1] = "?"

\* the atoms of a pattern that compiles: [ch, opt]
RECURSIVE Atoms(_, _)
Atoms(pattern, i) ==
    IF i > Len(pattern) THEN <<>>
    ELSE IF i < Len(pattern) /\ pattern[i + 1] = "?"
         THEN <<[ch |-> pattern[i], opt |-> TRUE]>> \o Atoms(pattern, i + 2)
         ELSE <<[ch |-> pattern[i], opt |-> FALSE]>> \o Atoms(pattern, i + 1)

\* one atom against one character under the flag `i`: both are canonicalized
\* (case folded) before they are compared; `.` takes any character but a line
\* terminator, and the model's alphabet has none
AtomMatches(ch, c) == ch = "." \/ LowerChar(ch) = LowerChar(c)

\* the backtracking matcher: atoms k.. of the pattern against s from position
\* i; the position after the match, or 0 when there is none
RECURSIVE MatchEnd(_, _, _, _)
MatchEnd(atoms, k, s, i) ==
    IF k > Len(atoms) THEN i
    ELSE LET can == i <= Len(s) /\ AtomMatches(atoms[k].ch, s[i])
             taken == IF can THEN MatchEnd(atoms, k + 1, s, i + 1) ELSE 0
         IN  IF atoms[k].opt
             THEN IF taken # 0 THEN taken ELSE MatchEnd(atoms, k + 1, s, i)
             ELSE taken

\* String.prototype.replace(regexp, '') with the flag `g`: every match, found
\* from left to right without overlap, goes; an empty match moves on by one
RECURSIVE ReplaceFrom(_, _, _)
ReplaceFrom(atoms, s, i) ==
    IF i > Len(s) THEN <<>>
    ELSE LET e == MatchEnd(atoms, 1, s, i)
         IN  IF e = 0 \/ e = i
             THEN <<s[i]>> \o ReplaceFrom(atoms, s, i + 1)
             ELSE ReplaceFrom(atoms, s, e)

\* post-submit.ts:45, 107  content.replace(new RegExp(triggerKeyword, 'gi'), '').trim()
ExtractQuestion(content, triggerKeyword) ==
    trim(ReplaceFrom(Atoms(triggerKeyword, 1), content, 1))

\* a keyword test that forgets to fold the case
ContainsKeyword_CaseSensitive(content, triggerKeyword) ==
    includes(content, triggerKeyword)

\* post-submit.ts:40, 102  content.toLowerCase().includes(triggerKeyword.toLowerCase())
ContainsKeyword(content, triggerKeyword) ==
    includes(toLowerCase(content), toLowerCase(triggerKeyword))

(***************************************************************************)
(* The conversation store: a Redis sorted set per user                     *)
(***************************************************************************)
\* the account the app runs as (context.reddit.getCurrentUser())
AppUser == [id |-> "t2_app", username |-> "redditor-agent"]
\* user identifiers: authors of posts (authorId) and of comments (author)
Users == {"t2_alice", "alice"}
\* every identifier a conversation key can be made of
UserIds == Users \cup {AppUser.id, AppUser.username}
Questions == {<<"a">>, <<"b">>}
Answers == {<<"x">>}
AppendIds == {1, 2}
\* the user whose key the overlapping calls contend for
ContendedUser == "alice"

\* one key for the histories of all users
ConvKey_Shared(userId) == <<"conversation", "shared">>

\* main.ts:296  const key = `conversation:${userId}`
ConvKey(userId) == <<"conversation", userId>>

\* a member serialized without the timestamp
Stringify_NoTimestamp(timestamp, question, answer) == <<0, question, answer>>

\* main.ts:298  JSON.stringify({timestamp, question, answer}): the member is
\* the text of the three fields in this order
Stringify(timestamp, question, answer) == <<timestamp, question, answer>>

\* main.ts:324  JSON.parse(item.member)
Parse(member) ==
    [timestamp |-> member[1], question |-> member[2], answer |-> member[3]]

\* Order of two members of equal score: Redis compares the member strings
\* byte-wise.  The serialized texts share `{"timestamp":<digits>,"question":"`,
\* then hold the question, `","answer":"`, the answer and `"}`; a string that
\* ends first continues with the closing quote.
MemberLess(m1, m2) ==
    LET q1 == m1[2] \o <<"\"">>
        q2 == m2[2] \o <<"\"">>
        a1 == m1[3] \o <<"\"">>
        a2 == m2[3] \o <<"\"">>
    IN  IF m1[1] # m2[1] THEN m1[1] < m2[1]
        ELSE IF q1 # q2 THEN StrLess(q1, q2)
        ELSE StrLess(a1, a2)

\* sorted-set order: by score, then by member
ZLess(e1, e2) ==
    \/ e1.score < e2.score
    \/ e1.score = e2.score /\ MemberLess(e1.member, e2.member)

\* 0-based rank of element e in sorted set z
Rank(z, e) == Cardinality({f \in z : ZLess(f, e)})

VARIABLES
    now,        \* the wall clock Date.now() reads, in milliseconds
    zsets,      \* Redis: key -> sorted set, a set of [score, member]
    ap,         \* storeConversation calls in progress: AppendIds -> frame
    nAppends,   \* number of storeConversation calls made so far
    recent,     \* history variable: user -> the members of the last
                \* storeConversation calls that returned, oldest first, at
                \* most KeepLatest (kept by the calls made one after the other)
    untrimmed   \* history variable: user -> number of calls whose insert took
                \* effect and that have not finished their trim

VARIABLES
    settings,   \* the app settings of the installation (main.ts:25-70)
    inv,        \* trigger handler invocations: InvIds -> frame
    stats,      \* Redis hash 'stats': the processed counters
    replyCount, \* Reddit: target id -> number of comments the app submitted
    delivered   \* number of trigger events the host has delivered

storeVars == <<now, zsets, ap, nAppends, recent, untrimmed>>
pipeVars == <<settings, inv, stats, replyCount, delivered>>
vars == <<now, zsets, ap, nAppends, recent, untrimmed,
          settings, inv, stats, replyCount, delivered>>

IdleAppend ==
    [pc |-> "idle", userId |-> "", timestamp |-> 0, member |-> <<>>, count |-> 0]

\* the last n elements of sequence s
LastN(s, n) == IF Len(s) <= n THEN s ELSE SubSeq(s, Len(s) - n + 1, Len(s))

\* Redis ZADD: a member already in the set keeps one copy and takes the score
zAdd(z, score, member) ==
    {e \in z : e.member # member} \cup {[score |-> score, member |-> member]}

\* Redis ZCARD
zCard(z) == Cardinality(z)

\* Redis ZREMRANGEBYRANK with 0 <= start: the elements of rank start..stop go
zRemRangeByRank(z, start, stop) ==
    {e \in z : ~(start <= Rank(z, e) /\ Rank(z, e) <= stop)}

\* Redis ZRANGE by rank with 0 <= start <= stop: the elements of rank
\* start..stop in ascending order
zRange(z, start, stop) ==
    LET n == Cardinality({e \in z : start <= Rank(z, e) /\ Rank(z, e) <= stop})
    IN  [i \in 1..n |-> CHOOSE e \in z : Rank(z, e) = start + i - 1]

\* a write that reaches the first counter only
hSet_PostsOnly(hash, fields) ==
    [hash EXCEPT !.posts_processed = fields.posts_processed]

\* Redis HSET: the given fields take the given values, the others stay
hSet(hash, fields) ==
    [k \in DOMAIN hash |-> IF k \in DOMAIN fields THEN fields[k] ELSE hash[k]]

\* a trim that starts one entry late
NeedsTrim_Late(count) == count > KeepLatest + 1

\* main.ts:307-311: whether the count read asks for a trim
NeedsTrim(count) == count > KeepLatest

\* main.ts:310: the trim issued for the count read
Trim(z, count) == zRemRangeByRank(z, 0, count - TrimOffset)

\* main.ts:290-312: the sorted set a call of storeConversation leaves when no
\* other call touches the key meanwhile
storeConversation(z, timestamp, member) ==
    LET added == zAdd(z, timestamp, member)
        count == zCard(added)
    IN  IF NeedsTrim(count) THEN Trim(added, count) ELSE added

\* main.ts:317-325
getConversationHistory(userId) ==
    LET items == zRange(zsets[ConvKey(userId)], 0, HistoryStop)
    IN  [i \in 1..Len(items) |-> Parse(items[i].member)]

(***************************************************************************)
(* storeConversation called one call after the other                       *)
(***************************************************************************)
\* main.ts:290-312.  `elapsed` is the time since the clock was last read:
\* Date.now() has millisecond resolution, so two calls may read the same value.
StoreConversation(userId, question, answer, elapsed) ==
    /\ \A a \in AppendIds : ap[a].pc = "idle"
    /\ UNCHANGED pipeVars
    /\ nAppends < MaxAppends
    /\ now + elapsed >= 1
    /\ now + elapsed <= MaxClock
    /\ now' = now + elapsed
    /\ zsets' = [zsets EXCEPT ![ConvKey(userId)] =
                    storeConversation(@, now', Stringify(now', question, answer))]
    /\ recent' = [recent EXCEPT ![userId] =
                    LastN(Append(@, Stringify(now', question, answer)), KeepLatest)]
    /\ nAppends' = nAppends + 1
    /\ UNCHANGED <<ap, untrimmed>>

(***************************************************************************)
(* storeConversation step by step: calls may overlap                       *)
(***************************************************************************)
\* main.ts:296-305: the call reads the clock, serializes the entry and issues
\* the insert
StartAppend(a, userId, question, answer, elapsed) ==
    /\ ap[a].pc = "idle"
    /\ UNCHANGED pipeVars
    /\ nAppends < MaxAppends
    /\ now + elapsed <= MaxClock
    /\ now' = now + elapsed
    /\ ap' = [ap EXCEPT ![a] =
                [pc |-> "zAdd", userId |-> userId, timestamp |-> now',
                 member |-> Stringify(now', question, answer), count |-> 0]]
    /\ nAppends' = nAppends + 1
    /\ UNCHANGED <<zsets, recent, untrimmed>>

\* a Redis call of frame a fails: the rejection leaves storeConversation
RedisThrows(a) ==
    /\ ap' = [ap EXCEPT ![a].pc = "failed"]
    /\ UNCHANGED <<now, zsets, nAppends, recent, untrimmed>>

\* main.ts:305  await context.redis.zAdd(key, {score: timestamp, member})
ZAddStep(a) ==
    /\ ap[a].pc = "zAdd"
    /\ UNCHANGED pipeVars
    /\ \/ /\ zsets' = [zsets EXCEPT ![ConvKey(ap[a].userId)] =
                          zAdd(@, ap[a].timestamp, ap[a].member)]
          /\ ap' = [ap EXCEPT ![a].pc = "zCard"]
          /\ untrimmed' = [untrimmed EXCEPT ![ap[a].userId] = @ + 1]
          /\ UNCHANGED <<now, nAppends, recent>>
       \/ RedisThrows(a)

\* main.ts:308-309  const count = await context.redis.zCard(key)
ZCardStep(a) ==
    /\ ap[a].pc = "zCard"
    /\ UNCHANGED pipeVars
    /\ \/ LET count == zCard(zsets[ConvKey(ap[a].userId)])
          IN  /\ IF NeedsTrim(count)
                 THEN /\ ap' = [ap EXCEPT ![a].pc = "zRem", ![a].count = count]
                      /\ UNCHANGED untrimmed
                 ELSE /\ ap' = [ap EXCEPT ![a].pc = "done", ![a].count = count]
                      /\ untrimmed' = [untrimmed EXCEPT ![ap[a].userId] = @ - 1]
              /\ UNCHANGED <<now, zsets, nAppends, recent>>
       \/ RedisThrows(a)

\* main.ts:310  await context.redis.zRemRangeByRank(key, 0, count - 6)
ZRemStep(a) ==
    /\ ap[a].pc = "zRem"
    /\ UNCHANGED pipeVars
    /\ \/ /\ zsets' = [zsets EXCEPT ![ConvKey(ap[a].userId)] =
                          Trim(@, ap[a].count)]
          /\ ap' = [ap EXCEPT ![a].pc = "done"]
          /\ untrimmed' = [untrimmed EXCEPT ![ap[a].userId] = @ - 1]
          /\ UNCHANGED <<now, nAppends, recent>>
       \/ RedisThrows(a)

\* the caller's continuation runs: the frame is gone
AppendReturn(a) ==
    /\ ap[a].pc \in {"done", "failed"}
    /\ UNCHANGED pipeVars
    /\ ap' = [ap EXCEPT ![a] = IdleAppend]
    /\ UNCHANGED <<now, zsets, nAppends, recent, untrimmed>>

StoreInit ==
    /\ now = 1
    /\ zsets = [k \in {ConvKey(u) : u \in UserIds} |-> {}]
    /\ ap = [a \in AppendIds |-> IdleAppend]
    /\ nAppends = 0
    /\ recent = [u \in Users |-> <<>>]
    /\ untrimmed = [u \in Users |-> 0]

(***************************************************************************)
(* The trigger pipeline: PostSubmit and CommentCreate handlers             *)
(***************************************************************************)
InvIds == {1, 2}

\* post-submit.ts:36, 99  `|| '!ask'`
DefaultKeyword == <<"!", "a", "s", "k">>

\* post-submit.ts:112
PromptReply == "Please provide a question after the trigger keyword!"
\* main.ts:204
Apology ==
    "I'm sorry, I encountered an error processing your request. Please try again later."
\* main.ts:218
OpenAINotConfigured ==
    "OpenAI API key not configured. Please contact the subreddit moderators."
\* main.ts:258
AnthropicNotConfigured ==
    "Anthropic API key not configured. Please contact the subreddit moderators."
\* main.ts:245, 283
UnableReply == "Unable to generate response."
\* main.ts:177-184
SYSTEM_PROMPT == "You are a helpful Reddit assistant. ... Don't make things up."
\* the text a provider generates
GeneratedText == "Plants turn light into sugar."

\* values of the setting trigger_keyword; <<>> is the setting left empty
KeywordSettings ==
    { <<>>, <<"!", "A">>, <<"!", "a", "?">>, <<".">>, <<"?", "a">> }
\* values of the setting ai_provider; <<>> is no selection
ProviderSettings == { <<>>, <<"openai">>, <<"anthropic">> }
\* values of a secret; "" is the secret not set
KeySettings == { "", "sk-secret" }

SettingsSpace ==
    [auto_reply_enabled : BOOLEAN, trigger_keyword : KeywordSettings,
     ai_provider : ProviderSettings, openai_key : KeySettings,
     anthropic_key : KeySettings]

\* main.ts:25-70: the settings of a fresh installation
DefaultSettings ==
    [auto_reply_enabled |-> FALSE, trigger_keyword |-> DefaultKeyword,
     ai_provider |-> <<"openai">>, openai_key |-> "", anthropic_key |-> ""]

\* event.post of a PostSubmit event (PostV2: id, authorId, title, selftext)
Titles == { <<"!", "a", "s", "k">>, <<"w">>, <<"!", "a", "?">> }
Selftexts == { <<>>, <<"w">>, <<"!", "A", "S", "K">> }
PostEvents ==
    [kind : {"PostSubmit"}, present : {TRUE}, id : {"t3_post"},
     author : {AppUser.id, "t2_alice"}, title : Titles, body : Selftexts]

\* event.comment of a CommentCreate event (CommentV2: id, author, body)
Bodies ==
    { <<"!", "a", "s", "k", " ", "w">>,
      <<"!", "A", "S", "K", " ", "w">>,
      <<"!", "a", "s", "k">>,
      <<" ", "!", "A", "s", "k", " ", "!", "a", "s", "k", " ">>,
      <<"w">>,
      <<"!", "a", "?">>,
      <<"?", "a", " ", "w">>,
      <<".", " ", "w">> }
CommentEvents ==
    [kind : {"CommentCreate"}, present : {TRUE}, id : {"t1_comment"},
     author : {AppUser.username, "alice"}, title : {<<>>}, body : Bodies]

\* an event that carries no post / no comment
EmptyEvents ==
    [kind : {"PostSubmit", "CommentCreate"}, present : {FALSE}, id : {""},
     author : {""}, title : {<<>>}, body : {<<>>}]

Events == PostEvents \cup CommentEvents \cup EmptyEvents

TargetIds == {"t3_post", "t1_comment"}

\* post-submit.ts:39  `${post.title} ${post.selftext || ''}`; :102 comment.body
Content(e) ==
    IF e.kind = "PostSubmit" THEN e.title \o <<" ">> \o e.body ELSE e.body

\* a gate that also stops at a target the app has already replied to
IsOwn_OrAlreadyReplied(e, found) ==
    \/ replyCount[e.id] > 0
    \/ /\ found
       /\ e.author = IF e.kind = "PostSubmit" THEN AppUser.id ELSE AppUser.username

\* post-submit.ts:31  post.authorId === currentUser?.id
\* post-submit.ts:94  comment.author === currentUser?.username
\* (found = FALSE: getCurrentUser resolved to undefined)
IsOwn(e, found) ==
    /\ found
    /\ e.author = IF e.kind = "PostSubmit" THEN AppUser.id ELSE AppUser.username

\* a feature gate that lets every event through
FeatureEnabled_Always(autoReplyEnabled) == TRUE

\* post-submit.ts:17, 81  `if (!autoReplyEnabled) return`: the feature is on
FeatureEnabled(autoReplyEnabled) == autoReplyEnabled

\* a comment handler without the check for an empty question
NeedsQuestionPrompt_Never(kind, question) == FALSE

\* post-submit.ts:109  `if (!question)`, in the CommentCreate handler only
NeedsQuestionPrompt(kind, question) ==
    kind = "CommentCreate" /\ question = <<>>

\* post-submit.ts:36, 99  settings.get('trigger_keyword') as string || '!ask'
TriggerKeyword(value) == IF value = <<>> THEN DefaultKeyword ELSE value

\* the two counters swapped
StatsField_Swapped(kind) ==
    IF kind = "PostSubmit" THEN "comments_processed" ELSE "posts_processed"

\* post-submit.ts:57, 129: the field of 'stats' a handler increments
StatsField(kind) ==
    IF kind = "PostSubmit" THEN "posts_processed" ELSE "comments_processed"

\* main.ts:193-194  provider = value || ['openai']; provider[0] || 'openai'
SelectedProvider(value) ==
    IF value = <<>> THEN "openai"
    ELSE IF value[1] = "" THEN "openai" ELSE value[1]

\* a dispatch that sends every selection to OpenAI
UsesAnthropic_Never(selectedProvider) == FALSE

\* main.ts:197-201: any selection but 'anthropic' goes to OpenAI
UsesAnthropic(selectedProvider) == selectedProvider = "anthropic"

\* every provider function reading the OpenAI secret
KeyName_AlwaysOpenAI(selectedProvider) == "openai_key"

\* main.ts:215, 255: the secret the selected provider's function reads
KeyName(selectedProvider) ==
    IF UsesAnthropic(selectedProvider) THEN "anthropic_key" ELSE "openai_key"

\* main.ts:218, 258
NotConfigured(selectedProvider) ==
    IF UsesAnthropic(selectedProvider)
    THEN AnthropicNotConfigured ELSE OpenAINotConfigured

\* a request that carries the stored conversation of 'alice' before the question
OpenAIRequest_WithHistory(apiKey, question) ==
    LET h == getConversationHistory("alice")
    IN  [url |-> "https://api.openai.com/v1/chat/completions",
         key |-> apiKey,
         body |-> [model |-> "gpt-4-turbo-preview",
                   messages |->
                      << [role |-> "system", content |-> SYSTEM_PROMPT] >>
                      \o [k \in 1..Len(h) |->
                            [role |-> "user", content |-> h[k].question]]
                      \o << [role |-> "user", content |-> question] >>,
                   max_tokens |-> 500,
                   temperature |-> "0.7"]]

\* main.ts:221-238: the request generateOpenAIResponse sends
OpenAIRequest(apiKey, question) ==
    [url |-> "https://api.openai.com/v1/chat/completions",
     key |-> apiKey,
     body |-> [model |-> "gpt-4-turbo-preview",
               messages |-> << [role |-> "system", content |-> SYSTEM_PROMPT],
                               [role |-> "user", content |-> question] >>,
               max_tokens |-> 500,
               temperature |-> "0.7"]]

\* main.ts:261-276: the request generateAnthropicResponse sends
AnthropicRequest(apiKey, question) ==
    [url |-> "https://api.anthropic.com/v1/messages",
     key |-> apiKey,
     body |-> [model |-> "claude-3-sonnet-20240229",
               max_tokens |-> 500,
               system |-> SYSTEM_PROMPT,
               messages |-> << [role |-> "user", content |-> question] >>]]

ProviderRequest(selectedProvider, apiKey, question) ==
    IF UsesAnthropic(selectedProvider)
    THEN AnthropicRequest(apiKey, question)
    ELSE OpenAIRequest(apiKey, question)

\* What a provider call comes to: fetch rejects; the status is not 2xx;
\* response.json() rejects; the payload has no choices / content list; the
\* list is empty; the text is empty; the text is there.
FetchOutcomes ==
    {"network error", "status not ok", "bad json", "no list", "empty list",
     "empty text", "text"}

\* a provider function that throws when the payload holds no text
ProviderResult_StrictPayload(outcome) ==
    CASE outcome = "text" -> GeneratedText
      [] OTHER -> "throws"

\* a provider function that does not look at the status of the response
ProviderResult_IgnoresStatus(outcome) ==
    CASE outcome = "text" -> GeneratedText
      [] outcome \in {"empty list", "empty text", "status not ok"} -> UnableReply
      [] OTHER -> "throws"

\* main.ts:226-245, 261-283: the string the provider function returns, or
\* "throws" when it throws (line 241/279, a rejected fetch or json(), or the
\* read of [0] of a missing list)
ProviderResult(outcome) ==
    CASE outcome = "text" -> GeneratedText
      [] outcome \in {"empty list", "empty text"} -> UnableReply
      [] OTHER -> "throws"

\* an entry of the record of collaborator calls an invocation makes
Call(c, a) == [c |-> c, a |-> a]

IdleFrame ==
    [pc |-> "idle", outcome |-> "", event |-> [kind |-> ""],
     question |-> <<>>, selectedProvider |-> "", fetched |-> "",
     aiResponse |-> "",
     gates |-> <<>>, stoppedAt |-> "", overlapped |-> FALSE,
     calls |-> <<>>, logs |-> <<>>, posted |-> <<>>, incremented |-> <<>>]

\* the handler returns (post-submit.ts:18, 25, 32, 41, 58, 83, 89, 95, 103, 114, 130)
Returned(f) == [f EXCEPT !.pc = "done", !.outcome = "returned"]

\* a gate exit that counts the event as processed
StoppedAt_Counted(f, gate) ==
    [f EXCEPT !.pc = "done", !.outcome = "returned", !.stoppedAt = gate,
              !.incremented = Append(@, StatsField(f.event.kind))]

\* the invocation passed a gate / ended at a gate
Passed(f, gate) == [f EXCEPT !.gates = Append(@, gate)]
StoppedAt(f, gate) == Returned([f EXCEPT !.stoppedAt = gate])

\* a handler without a catch block: the failure leaves it
Caught_Escapes(f) == [f EXCEPT !.pc = "done", !.outcome = "escaped"]

\* a catch block that swallows the failure without a log entry
Caught_Silent(f) == [f EXCEPT !.pc = "done", !.outcome = "caught"]

\* the handler's catch block logs the failure and returns (post-submit.ts:59-61, 131-133)
Caught(f) ==
    [f EXCEPT !.pc = "done", !.outcome = "caught",
              !.logs = Append(@, <<"Error in trigger", f.event.kind>>)]

\* the host delivers event e to invocation i: the handler starts and reads
\* the setting auto_reply_enabled (post-submit.ts:16, 80)
Deliver(i, e) ==
    /\ inv[i].pc = "idle"
    /\ delivered < MaxEvents
    /\ delivered' = delivered + 1
    /\ inv' = [inv EXCEPT ![i] =
                 [IdleFrame EXCEPT
                    !.pc = "autoReply", !.event = e,
                    !.overlapped = \E j \in InvIds \ {i} :
                                      inv[j].pc \notin {"idle", "done"},
                    !.calls = <<Call("settings.get", "auto_reply_enabled")>>]]
    /\ UNCHANGED <<settings, stats, replyCount>>
    /\ UNCHANGED storeVars

\* post-submit.ts:16-29, 80-93: the feature gate, the content gate, then the
\* identity lookup
AutoReplyResult(i) ==
    LET f == inv[i] IN
    /\ f.pc = "autoReply"
    /\ \/ inv' = [inv EXCEPT ![i] = Caught(f)]
       \/ /\ ~FeatureEnabled(settings.auto_reply_enabled)
          /\ inv' = [inv EXCEPT ![i] = StoppedAt(f, "feature")]
       \/ /\ FeatureEnabled(settings.auto_reply_enabled)
          /\ ~f.event.present
          /\ inv' = [inv EXCEPT ![i] =
                       StoppedAt([Passed(f, "feature") EXCEPT !.logs =
                                    Append(@, <<"not found in event">>)],
                                 "content")]
       \/ /\ FeatureEnabled(settings.auto_reply_enabled)
          /\ f.event.present
          /\ inv' = [inv EXCEPT ![i] =
                       [Passed(Passed(f, "feature"), "content") EXCEPT
                          !.pc = "getCurrentUser",
                          !.calls = Append(@, Call("reddit.getCurrentUser", ""))]]
    /\ UNCHANGED <<settings, stats, replyCount, delivered>>
    /\ UNCHANGED storeVars

\* post-submit.ts:29-36, 93-99: the self-authorship gate, then the read of the
\* trigger keyword
CurrentUserResult(i) ==
    LET f == inv[i] IN
    /\ f.pc = "getCurrentUser"
    /\ \/ inv' = [inv EXCEPT ![i] = Caught(f)]
       \/ \E found \in BOOLEAN :
             IF IsOwn(f.event, found)
             THEN inv' = [inv EXCEPT ![i] = StoppedAt(f, "self")]
             ELSE inv' = [inv EXCEPT ![i] =
                            [Passed(f, "self") EXCEPT
                               !.pc = "keyword",
                               !.calls = Append(@, Call("settings.get", "trigger_keyword"))]]
    /\ UNCHANGED <<settings, stats, replyCount, delivered>>
    /\ UNCHANGED storeVars

\* post-submit.ts:36-46, 99-118: the keyword gate, the question extraction,
\* then the prompt for a question (comments) or the call of generateAIResponse,
\* which reads the setting ai_provider (main.ts:193)
KeywordResult(i) ==
    LET f == inv[i]
        triggerKeyword == TriggerKeyword(settings.trigger_keyword)
        content == Content(f.event)
        question == ExtractQuestion(content, triggerKeyword)
    IN
    /\ f.pc = "keyword"
    /\ \/ inv' = [inv EXCEPT ![i] = Caught(f)]
       \/ /\ ~ContainsKeyword(content, triggerKeyword)
          /\ inv' = [inv EXCEPT ![i] = StoppedAt(f, "keyword")]
       \/ /\ ContainsKeyword(content, triggerKeyword)
          /\ RegExpThrows(triggerKeyword)
          /\ inv' = [inv EXCEPT ![i] = Caught(Passed(f, "keyword"))]
       \/ /\ ContainsKeyword(content, triggerKeyword)
          /\ ~RegExpThrows(triggerKeyword)
          /\ NeedsQuestionPrompt(f.event.kind, question)
          /\ inv' = [inv EXCEPT ![i] =
                       [Passed(f, "keyword") EXCEPT
                          !.pc = "submitPrompt", !.question = question,
                          !.stoppedAt = "question",
                          !.calls = Append(@, Call("reddit.submitComment",
                                      [id |-> f.event.id, text |-> PromptReply]))]]
       \/ /\ ContainsKeyword(content, triggerKeyword)
          /\ ~RegExpThrows(triggerKeyword)
          /\ ~NeedsQuestionPrompt(f.event.kind, question)
          /\ inv' = [inv EXCEPT ![i] =
                       [Passed(Passed(f, "keyword"), "question") EXCEPT
                          !.pc = "genProvider", !.question = question,
                          !.calls = @ \o <<Call("generateAIResponse", question),
                                           Call("settings.get", "ai_provider")>>]]
    /\ UNCHANGED <<settings, stats, replyCount, delivered>>
    /\ UNCHANGED storeVars

\* post-submit.ts:110-114: the prompt for a question was submitted, or not
PromptResult(i) ==
    LET f == inv[i] IN
    /\ f.pc = "submitPrompt"
    /\ \/ /\ inv' = [inv EXCEPT ![i] = Caught(f)]
          /\ UNCHANGED replyCount
       \/ /\ inv' = [inv EXCEPT ![i] =
                       Returned([f EXCEPT !.posted =
                                   Append(@, [id |-> f.event.id, text |-> PromptReply])])]
          /\ replyCount' = [replyCount EXCEPT ![f.event.id] = @ + 1]
    /\ UNCHANGED <<settings, stats, delivered>>
    /\ UNCHANGED storeVars

\* a handler that submits the prompt for a question whatever was generated
SubmitReply_FixedText(f, text) ==
    [f EXCEPT !.pc = "submitReply", !.aiResponse = text,
              !.calls = Append(@, Call("reddit.submitComment",
                                       [id |-> f.event.id, text |-> PromptReply]))]

\* generateAIResponse returns text to the handler, which submits it as a
\* comment on the event's target (post-submit.ts:46-52, 118-124)
SubmitReply(f, text) ==
    [f EXCEPT !.pc = "submitReply", !.aiResponse = text,
              !.calls = Append(@, Call("reddit.submitComment",
                                       [id |-> f.event.id, text |-> text]))]

\* main.ts:202-205: the catch block of generateAIResponse
GenerationFailed(f) ==
    SubmitReply([f EXCEPT !.logs =
                   Append(@, <<"AI generation error", f.selectedProvider>>)],
                Apology)

\* main.ts:193-198, 215, 255: the provider is selected and its function reads
\* its secret; a failed read of ai_provider leaves generateAIResponse, whose
\* try block starts after it
GenProviderResult(i) ==
    LET f == inv[i]
        selectedProvider == SelectedProvider(settings.ai_provider)
    IN
    /\ f.pc = "genProvider"
    /\ \/ inv' = [inv EXCEPT ![i] = Caught(f)]
       \/ inv' = [inv EXCEPT ![i] =
                    [f EXCEPT !.pc = "genKey",
                              !.selectedProvider = selectedProvider,
                              !.calls = Append(@, Call("settings.get",
                                                       KeyName(selectedProvider)))]]
    /\ UNCHANGED <<settings, stats, replyCount, delivered>>
    /\ UNCHANGED storeVars

\* main.ts:215-238, 255-276: without the secret the fixed message is the
\* result; with it the request goes out
GenKeyResult(i) ==
    LET f == inv[i]
        apiKey == settings[KeyName(f.selectedProvider)]
    IN
    /\ f.pc = "genKey"
    /\ \/ inv' = [inv EXCEPT ![i] = GenerationFailed(f)]
       \/ /\ apiKey = ""
          /\ inv' = [inv EXCEPT ![i] =
                       SubmitReply(f, NotConfigured(f.selectedProvider))]
       \/ /\ apiKey # ""
          /\ inv' = [inv EXCEPT ![i] =
                       [f EXCEPT !.pc = "genFetch",
                                 !.calls = Append(@, Call("fetch",
                                     ProviderRequest(f.selectedProvider, apiKey,
                                                     f.question)))]]
    /\ UNCHANGED <<settings, stats, replyCount, delivered>>
    /\ UNCHANGED storeVars

\* main.ts:240-245, 278-283, 202-205: the provider's answer becomes the result
GenFetchResult(i) ==
    LET f == inv[i] IN
    /\ f.pc = "genFetch"
    /\ \E outcome \in FetchOutcomes :
          LET g == [f EXCEPT !.fetched = outcome] IN
          IF ProviderResult(outcome) = "throws"
          THEN inv' = [inv EXCEPT ![i] = GenerationFailed(g)]
          ELSE inv' = [inv EXCEPT ![i] = SubmitReply(g, ProviderResult(outcome))]
    /\ UNCHANGED <<settings, stats, replyCount, delivered>>
    /\ UNCHANGED storeVars

\* post-submit.ts:49-57, 121-129: the reply was submitted, or not; after it
\* the handler logs and increments its counter
SubmitResult(i) ==
    LET f == inv[i] IN
    /\ f.pc = "submitReply"
    /\ \/ /\ inv' = [inv EXCEPT ![i] = Caught(f)]
          /\ UNCHANGED replyCount
       \/ /\ inv' = [inv EXCEPT ![i] =
                       [f EXCEPT !.pc = "hIncrBy",
                                 !.posted = Append(@, [id |-> f.event.id,
                                                       text |-> f.aiResponse]),
                                 !.logs = Append(@, <<"Replied", f.event.id>>),
                                 !.calls = Append(@, Call("redis.hIncrBy",
                                                     StatsField(f.event.kind)))]]
          /\ replyCount' = [replyCount EXCEPT ![f.event.id] = @ + 1]
    /\ UNCHANGED <<settings, stats, delivered>>
    /\ UNCHANGED storeVars

\* post-submit.ts:57, 129  await context.redis.hIncrBy('stats', field, 1)
IncrResult(i) ==
    LET f == inv[i] IN
    /\ f.pc = "hIncrBy"
    /\ \/ /\ inv' = [inv EXCEPT ![i] = Caught(f)]
          /\ UNCHANGED stats
       \/ /\ inv' = [inv EXCEPT ![i] =
                       Returned([f EXCEPT !.incremented =
                                   Append(@, StatsField(f.event.kind))])]
          /\ stats' = [stats EXCEPT ![StatsField(f.event.kind)] = @ + 1]
    /\ UNCHANGED <<settings, replyCount, delivered>>
    /\ UNCHANGED storeVars

\* the invocation is over: its frame is gone
Return(i) ==
    /\ inv[i].pc = "done"
    /\ inv' = [inv EXCEPT ![i] = IdleFrame]
    /\ UNCHANGED <<settings, stats, replyCount, delivered>>
    /\ UNCHANGED storeVars

\* the pipeline before the first event, under given settings
PipeInit ==
    /\ inv = [i \in InvIds |-> IdleFrame]
    /\ stats = [posts_processed |-> 0, comments_processed |-> 0]
    /\ replyCount = [t \in TargetIds |-> 0]
    /\ delivered = 0

\* a fresh installation: no moderator has changed a setting, no event yet
InstalledInit == StoreInit /\ PipeInit /\ settings = DefaultSettings

Init == StoreInit /\ PipeInit /\ settings \in SettingsSpace

\* the host delivers one event after the other
Next ==
    \/ \E e \in Events :
          /\ \A j \in InvIds : inv[j].pc = "idle"
          /\ Deliver(1, e)
    \/ \E i \in InvIds : AutoReplyResult(i)
    \/ \E i \in InvIds : CurrentUserResult(i)
    \/ \E i \in InvIds : KeywordResult(i)
    \/ \E i \in InvIds : PromptResult(i)
    \/ \E i \in InvIds : GenProviderResult(i)
    \/ \E i \in InvIds : GenKeyResult(i)
    \/ \E i \in InvIds : GenFetchResult(i)
    \/ \E i \in InvIds : SubmitResult(i)
    \/ \E i \in InvIds : IncrResult(i)
    \/ \E i \in InvIds : Return(i)

Spec == Init /\ [][Next]_vars
\* the conversation store with storeConversation calls that overlap
StoreNext ==
    \/ \E a \in AppendIds, q \in Questions, r \in Answers, elapsed \in 0..1 :
          StartAppend(a, ContendedUser, q, r, elapsed)
    \/ \E a \in AppendIds : ZAddStep(a)
    \/ \E a \in AppendIds : ZCardStep(a)
    \/ \E a \in AppendIds : ZRemStep(a)
    \/ \E a \in AppendIds : AppendReturn(a)

StoreSpec == InstalledInit /\ [][StoreNext]_vars

\* the conversation store with storeConversation calls one after the other
SeqStoreNext ==
    \E u \in Users, q \in Questions, r \in Answers, elapsed \in 0..1 :
        StoreConversation(u, q, r, elapsed)

SeqStoreSpec == InstalledInit /\ [][SeqStoreNext]_vars

(***************************************************************************)
(* Claims about the conversation store                                     *)
(***************************************************************************)
\* the set of elements of sequence s
Range(s) == {s[i] : i \in 1..Len(s)}

\* C1 (as claimed; SeqStoreSpec): after N completed, non-overlapping appends
\* for a user, the history has at most 5 entries, in ascending timestamp
\* order, and they are exactly the min(N, 5) most recently appended entries.
C1_HistoryIsLatestAppended ==
    \A u \in Users :
        LET h == getConversationHistory(u)
        IN  /\ Len(h) <= KeepLatest
            /\ \A i, j \in 1..Len(h) : i < j => h[i].timestamp <= h[j].timestamp
            /\ Len(h) = Len(recent[u])
            /\ Range(h) = {Parse(m) : m \in Range(recent[u])}

\* C2 (as claimed; StoreSpec): in every reachable state, between the steps of
\* an append and under overlapping appends too, a user's key never holds more
\* than 5 entries.
C2_NeverMoreThanFive ==
    \A u \in Users : zCard(zsets[ConvKey(u)]) <= KeepLatest

\* C2 (amended; StoreSpec): a user's key never holds more than 5 entries plus
\* one for every append of that user whose insert took effect and whose trim
\* has not finished; so with no such append it holds at most 5.
C2_AtMostFivePlusUntrimmed ==
    \A u \in Users : zCard(zsets[ConvKey(u)]) <= KeepLatest + untrimmed[u]

\* C2 witness: every call made, all of them returned with their trim done, and
\* the key is full
C2_Witness_TrimmedToFive ==
    /\ nAppends = MaxAppends
    /\ \A a \in AppendIds : ap[a].pc = "idle"
    /\ untrimmed[ContendedUser] = 0
    /\ zCard(zsets[ConvKey(ContendedUser)]) = KeepLatest

\* C3 (as claimed; SeqStoreSpec): when a user has exactly 5 stored entries, one
\* completed append for that user removes exactly one entry, one of lowest
\* timestamp, and leaves the other 4 old entries plus the new one.
C3_AppendToFullEvictsOldest ==
    [][\A u \in Users, q \in Questions, r \in Answers, elapsed \in 0..1 :
          ( /\ StoreConversation(u, q, r, elapsed)
            /\ zCard(zsets[ConvKey(u)]) = KeepLatest )
          => LET old == zsets[ConvKey(u)]
                 new == [score |-> now', member |-> Stringify(now', q, r)]
             IN  \E x \in old :
                    /\ \A y \in old : x.score <= y.score
                    /\ x \notin zsets'[ConvKey(u)]
                    /\ new \in zsets'[ConvKey(u)]
                    /\ zsets'[ConvKey(u)] = (old \ {x}) \cup {new}
      ]_vars

(***************************************************************************)
(* Claims about the trigger pipeline                                       *)
(***************************************************************************)
\* the positions of the calls of collaborator c in the record of frame f
CallsOf(f, c) == {k \in 1..Len(f.calls) : f.calls[k].c = c}

\* frame f holds an invocation
Started(f) == f.pc # "idle"

\* frame f called generateAIResponse / the posting collaborator
CalledGenerator(f) ==
    CallsOf(f, "generateAIResponse") # {} \/ CallsOf(f, "fetch") # {}
CalledPosting(f) == CallsOf(f, "reddit.submitComment") # {}

\* the author of the event is the app's own account
AuthoredByApp(e) ==
    \/ e.kind = "PostSubmit" /\ e.author = "t2_app"
    \/ e.kind = "CommentCreate" /\ e.author = "redditor-agent"

\* c and d are the same letter, in either case
SameLetter(c, d) ==
    \/ c = d
    \/ <<c, d>> \in { <<"a", "A">>, <<"A", "a">>, <<"s", "S">>, <<"S", "s">>,
                      <<"k", "K">>, <<"K", "k">> }

\* the keyword stands at position i + 1 of the text, in any letter case
KeywordAt(text, keyword, i) ==
    /\ i + Len(keyword) <= Len(text)
    /\ \A j \in 1..Len(keyword) : SameLetter(text[i + j], keyword[j])

\* the text contains the keyword in any letter case
ContainsAnyCase(text, keyword) ==
    \E i \in 0..Len(text) : KeywordAt(text, keyword, i)

\* the text without the occurrences of the keyword, in any letter case
RECURSIVE StripKeyword(_, _)
StripKeyword(text, keyword) ==
    IF text = <<>> THEN <<>>
    ELSE IF KeywordAt(text, keyword, 0)
         THEN StripKeyword(SubSeq(text, Len(keyword) + 1, Len(text)), keyword)
         ELSE <<Head(text)>> \o StripKeyword(Tail(text), keyword)

\* C4 (Spec): with auto_reply_enabled false, no invocation, whatever its
\* event, calls the response generator or the posting collaborator.
C4_FeatureOffNoGeneratorNoPosting ==
    \A i \in InvIds :
        (Started(inv[i]) /\ ~settings.auto_reply_enabled)
        => /\ ~CalledGenerator(inv[i])
           /\ ~CalledPosting(inv[i])
           /\ inv[i].posted = <<>>

\* C4 witness: a comment by another user that carries the keyword was handled
\* to the end with the feature off
C4_Witness_KeywordCommentFeatureOff ==
    /\ ~settings.auto_reply_enabled
    /\ settings.trigger_keyword = <<>>
    /\ inv[1].pc = "done"
    /\ inv[1].event.kind = "CommentCreate"
    /\ inv[1].event.author = "alice"
    /\ inv[1].event.body = <<"!", "a", "s", "k", " ", "w">>

\* C5 (as claimed; Spec): with auto_reply_enabled false, an invocation calls
\* no collaborator at all, the settings provider included, and the counters,
\* the replies and the conversation store stay as they were.
C5_FeatureOffNoCollaboratorAtAll ==
    ~settings.auto_reply_enabled
    => /\ \A i \in InvIds : inv[i].calls = <<>>
       /\ stats = [posts_processed |-> 0, comments_processed |-> 0]
       /\ \A t \in TargetIds : replyCount[t] = 0
       /\ \A u \in UserIds : zsets[ConvKey(u)] = {}

\* C5 (amended; Spec): with auto_reply_enabled false, the only collaborator
\* call of an invocation is the settings read of auto_reply_enabled; the
\* counters, the replies and the conversation store stay as they were.
C5_FeatureOffOnlyReadsTheFlag ==
    ~settings.auto_reply_enabled
    => /\ \A i \in InvIds :
             Started(inv[i])
             => /\ Len(inv[i].calls) = 1
                /\ inv[i].calls[1].c = "settings.get"
                /\ inv[i].calls[1].a = "auto_reply_enabled"
                /\ inv[i].posted = <<>>
                /\ inv[i].incremented = <<>>
       /\ stats = [posts_processed |-> 0, comments_processed |-> 0]
       /\ \A t \in TargetIds : replyCount[t] = 0
       /\ \A u \in UserIds : zsets[ConvKey(u)] = {}

\* C5 witness: the last event, a post, was handled to the end with the
\* feature off
C5_Witness_LastPostFeatureOff ==
    /\ ~settings.auto_reply_enabled
    /\ delivered = MaxEvents
    /\ inv[1].pc = "done"
    /\ inv[1].event.kind = "PostSubmit"
    /\ inv[1].event.present

\* C6 (as claimed; Spec): an event whose author is the app's own account makes
\* no call to the posting collaborator and none to the response generator.
C6_OwnEventNeverReplied ==
    \A i \in InvIds :
        (Started(inv[i]) /\ inv[i].event.present /\ AuthoredByApp(inv[i].event))
        => /\ ~CalledPosting(inv[i])
           /\ ~CalledGenerator(inv[i])

\* C7 (Spec): an event passes the keyword gate exactly when its raw text
\* contains the trigger keyword in some letter case, and an event whose text
\* does not contain it causes no generator call, no reply and no counter
\* change.
C7_KeywordGateIgnoresCase ==
    \A i \in InvIds :
        LET f == inv[i]
            keyword == TriggerKeyword(settings.trigger_keyword)
        IN  /\ f.stoppedAt = "keyword"
               => ~ContainsAnyCase(Content(f.event), keyword)
            /\ (\E g \in 1..Len(f.gates) : f.gates[g] = "keyword")
               => ContainsAnyCase(Content(f.event), keyword)
            /\ (Started(f) /\ ~ContainsAnyCase(Content(f.event), keyword))
               => /\ ~CalledGenerator(f)
                  /\ ~CalledPosting(f)
                  /\ f.posted = <<>>
                  /\ f.incremented = <<>>

\* C7 witness: a comment that writes the keyword !ask in capitals passed the
\* keyword gate
C7_Witness_UpperCaseKeywordPasses ==
    \E i \in InvIds :
        /\ Started(inv[i])
        /\ settings.trigger_keyword = <<>>
        /\ inv[i].event.kind = "CommentCreate"
        /\ inv[i].event.body = <<"!", "A", "S", "K", " ", "w">>
        /\ \E g \in 1..Len(inv[i].gates) : inv[i].gates[g] = "keyword"

\* C8 (as claimed; Spec): a comment that passed gates 1-4 and whose text is
\* empty once every occurrence of the keyword is taken out and the rest is
\* trimmed gets the fixed prompt posted to its id, and the generator is not
\* called.
C8_EmptyQuestionGetsPrompt ==
    \A i \in InvIds :
        LET f == inv[i]
            keyword == TriggerKeyword(settings.trigger_keyword)
        IN  ( /\ Started(f)
              /\ f.event.kind = "CommentCreate"
              /\ ~AuthoredByApp(f.event)
              /\ \E g \in 1..Len(f.gates) : f.gates[g] = "keyword"
              /\ trim(StripKeyword(f.event.body, keyword)) = <<>> )
            => /\ ~CalledGenerator(f)
               /\ \E k \in CallsOf(f, "reddit.submitComment") :
                     f.calls[k].a = [id |-> f.event.id, text |-> PromptReply]

\* C9 (as claimed; Spec): for an eligible event with a non-empty question,
\* when generation and posting succeed, exactly one reply is posted to the
\* event's id and the counter of the event's kind goes up by exactly 1.
C9_RepliedOnceCountedOnce ==
    \A i \in InvIds :
        LET f == inv[i]
        IN  ( /\ f.pc = "done"
              /\ ~AuthoredByApp(f.event)
              /\ f.question # <<>>
              /\ f.aiResponse = GeneratedText
              /\ f.posted # <<>> )
            => /\ f.posted = <<[id |-> f.event.id, text |-> GeneratedText]>>
               /\ f.event.kind = "CommentCreate"
                  => f.incremented = <<"comments_processed">>
               /\ f.event.kind = "PostSubmit"
                  => f.incremented = <<"posts_processed">>

\* C9 (amended; Spec): when an invocation returns after its hIncrBy call
\* succeeded (so generateAIResponse returned and the reply was posted), it has
\* posted exactly one reply, to the event's id, with the generator's text,
\* and this step raises the counter of the event's kind by exactly 1 and
\* leaves the other counter alone.
C9_CountedOnceWhenIncrementSucceeds ==
    [][\A i \in InvIds :
          (inv[i].pc = "hIncrBy" /\ inv'[i].outcome = "returned")
          => /\ inv'[i].posted =
                   <<[id |-> inv[i].event.id, text |-> inv[i].aiResponse]>>
             /\ inv[i].event.kind = "CommentCreate"
                => /\ stats'.comments_processed = stats.comments_processed + 1
                   /\ stats'.posts_processed = stats.posts_processed
             /\ inv[i].event.kind = "PostSubmit"
                => /\ stats'.posts_processed = stats.posts_processed + 1
                   /\ stats'.comments_processed = stats.comments_processed
      ]_vars

\* C9 witness: a comment with the question "w" was answered with generated
\* text and counted
C9_Witness_CommentAnsweredAndCounted ==
    \E i \in InvIds :
        /\ inv[i].pc = "done"
        /\ inv[i].outcome = "returned"
        /\ inv[i].event.kind = "CommentCreate"
        /\ inv[i].question = <<"w">>
        /\ inv[i].aiResponse = GeneratedText
        /\ inv[i].posted = <<[id |-> "t1_comment", text |-> GeneratedText]>>
        /\ stats.comments_processed = 1

\* C10 (as claimed; Spec): once the reply of an eligible event is posted and
\* the handler has returned, the history of the event's author holds the
\* (question, reply) pair.
C10_RepliedPairIsInHistory ==
    \A i \in InvIds :
        LET f == inv[i]
            h == getConversationHistory(f.event.author)
        IN  ( /\ f.pc = "done"
              /\ f.outcome = "returned"
              /\ ~AuthoredByApp(f.event)
              /\ f.question # <<>>
              /\ f.aiResponse = GeneratedText
              /\ f.posted # <<>> )
            => \E k \in 1..Len(h) :
                  /\ h[k].question = f.question
                  /\ h[k].answer = f.aiResponse

\* the provider the settings select, read off the setting itself
ConfiguredProvider ==
    IF settings.ai_provider = <<"anthropic">> THEN "anthropic" ELSE "openai"

\* the invocation has left generateAIResponse with a string in hand
GeneratorReturned(f) ==
    /\ CallsOf(f, "generateAIResponse") # {}
    /\ f.aiResponse # ""

\* generateAIResponse logged a failure in this invocation
GenerationErrorLogged(f) ==
    \E k \in 1..Len(f.logs) : f.logs[k][1] = "AI generation error"

\* C11 (as claimed; Spec): generateAIResponse is total: every invocation that
\* called it and is over got a string back from it, whatever its collaborators
\* did, and went on to submit that string.
C11_GenerateAlwaysReturns ==
    \A i \in InvIds :
        (inv[i].pc = "done" /\ CallsOf(inv[i], "generateAIResponse") # {})
        => /\ GeneratorReturned(inv[i])
           /\ CalledPosting(inv[i])

\* C12 (Spec): when the credential of the configured provider is absent, no
\* request goes out, and a generateAIResponse call that read the credential
\* and did not fail returns that provider's fixed "not configured" message,
\* which the handler submits as the reply.
C12_AbsentCredentialFixedMessage ==
    \A i \in InvIds :
        LET f == inv[i]
            absent == IF ConfiguredProvider = "anthropic"
                      THEN settings.anthropic_key = ""
                      ELSE settings.openai_key = ""
            message == IF ConfiguredProvider = "anthropic"
                       THEN "Anthropic API key not configured. Please contact the subreddit moderators."
                       ELSE "OpenAI API key not configured. Please contact the subreddit moderators."
        IN  (Started(f) /\ absent)
            => /\ CallsOf(f, "fetch") = {}
               /\ (GeneratorReturned(f) /\ ~GenerationErrorLogged(f))
                  => /\ f.aiResponse = message
                     /\ \E k \in CallsOf(f, "reddit.submitComment") :
                           f.calls[k].a = [id |-> f.event.id, text |-> message]
                     /\ f.posted # <<>>
                        => f.posted = <<[id |-> f.event.id, text |-> message]>>

\* C12 witness: Anthropic is selected without a key while OpenAI has one; the
\* fixed Anthropic message was posted as the reply
C12_Witness_AnthropicKeyAbsent ==
    /\ settings.ai_provider = <<"anthropic">>
    /\ settings.anthropic_key = ""
    /\ settings.openai_key # ""
    /\ inv[1].pc = "done"
    /\ inv[1].outcome = "returned"
    /\ inv[1].posted = <<[id |-> inv[1].event.id, text |-> AnthropicNotConfigured]>>

\* C13 (Spec): when the provider call raises or answers with a non-success
\* status, generateAIResponse returns the fixed apology, logs the failure with
\* the name of the provider, and the handler goes on to submit the apology.
C13_ProviderFailureApology ==
    \A i \in InvIds :
        LET f == inv[i]
            apology == "I'm sorry, I encountered an error processing your request. Please try again later."
        IN  f.fetched \in {"network error", "status not ok"}
            => /\ f.aiResponse = apology
               /\ \E k \in 1..Len(f.logs) :
                     f.logs[k] = <<"AI generation error", ConfiguredProvider>>
               /\ f.pc \in {"submitReply", "hIncrBy", "done"}
               /\ \E k \in CallsOf(f, "reddit.submitComment") :
                     f.calls[k].a = [id |-> f.event.id, text |-> apology]

\* C13 witness: Anthropic answered with a non-success status and the apology
\* was posted
C13_Witness_AnthropicStatusNotOk ==
    /\ settings.ai_provider = <<"anthropic">>
    /\ inv[1].pc = "done"
    /\ inv[1].fetched = "status not ok"
    /\ inv[1].posted = <<[id |-> inv[1].event.id, text |-> Apology]>>

\* the invocation's attempt to post failed
PostingFailed(f) == f.pc = "done" /\ CalledPosting(f) /\ f.posted = <<>>

\* C14 (Spec): an invocation calls the posting collaborator at most once; a
\* posting failure is caught and logged by the handler, which then neither
\* calls hIncrBy nor changes a counter or a conversation history.
C14_PostingFailureNotRetried ==
    /\ [](\A i \in InvIds :
            LET f == inv[i]
            IN  /\ Cardinality(CallsOf(f, "reddit.submitComment")) <= 1
                /\ PostingFailed(f)
                   => /\ f.outcome = "caught"
                      /\ f.logs # <<>>
                      /\ f.logs[Len(f.logs)] = <<"Error in trigger", f.event.kind>>
                      /\ f.incremented = <<>>
                      /\ CallsOf(f, "redis.hIncrBy") = {})
    /\ [][\A i \in InvIds :
            (~PostingFailed(inv[i]) /\ PostingFailed(inv'[i]))
            => (stats' = stats /\ zsets' = zsets /\ replyCount' = replyCount)]_vars

\* C14 witness: the generated reply could not be posted
C14_Witness_GeneratedReplyNotPosted ==
    /\ PostingFailed(inv[1])
    /\ inv[1].aiResponse = GeneratedText
    /\ Cardinality(CallsOf(inv[1], "reddit.submitComment")) = 1

(***************************************************************************)
(* Every promise a handler awaits settles: the invocation takes its next   *)
(* step.                                                                   *)
(***************************************************************************)
HandlerStep(i) ==
    \/ AutoReplyResult(i)
    \/ CurrentUserResult(i)
    \/ KeywordResult(i)
    \/ PromptResult(i)
    \/ GenProviderResult(i)
    \/ GenKeyResult(i)
    \/ GenFetchResult(i)
    \/ SubmitResult(i)
    \/ IncrResult(i)

LiveSpec == Spec /\ \A i \in InvIds : WF_vars(HandlerStep(i))

\* C15 (LiveSpec): every invocation of a handler comes to its end, and it
\* ends by returning, from the body or from the catch block after a log
\* entry; no failure of a collaborator leaves the handler.
C15_EveryInvocationReturns ==
    /\ \A i \in InvIds : Started(inv[i]) ~> inv[i].pc = "done"
    /\ [](\A i \in InvIds :
            /\ inv[i].pc = "done"
               => inv[i].outcome \in {"returned", "caught"}
            /\ inv[i].outcome = "caught"
               => /\ inv[i].pc = "done"
                  /\ inv[i].logs # <<>>
                  /\ inv[i].logs[Len(inv[i].logs)]
                        = <<"Error in trigger", inv[i].event.kind>>)

\* C15 witness: the identity lookup failed and the handler ended in its catch
\* block
C15_Witness_IdentityFailureCaught ==
    /\ inv[1].pc = "done"
    /\ inv[1].outcome = "caught"
    /\ inv[1].calls[Len(inv[1].calls)].c = "reddit.getCurrentUser"

\* the invocation passed the given gate
PassedGate(f, gate) == \E g \in 1..Len(f.gates) : f.gates[g] = gate

\* C16 (as claimed; Spec): an invocation whose event passed the feature,
\* content, self-authorship and keyword gates does not end without an attempt
\* to post a reply.
C16_EligibleEventGetsReplyAttempt ==
    \A i \in InvIds :
        (inv[i].pc = "done" /\ PassedGate(inv[i], "keyword"))
        => CalledPosting(inv[i])

\* the five gates in the order of the handlers
GateOrder == <<"feature", "content", "self", "keyword", "question">>

\* the positions at which the invocation read the setting trigger_keyword
KeywordReads(f) ==
    {k \in CallsOf(f, "settings.get") : f.calls[k].a = "trigger_keyword"}

\* C17 (Spec): the gates are passed in the order feature, content,
\* self-authorship, keyword, question; the gate that fails ends the
\* invocation; the identity lookup comes only after the feature and content
\* gates passed, the keyword read only after the identity lookup, and
\* generateAIResponse only after all five gates passed.
C17_GatesInOrder ==
    \A i \in InvIds :
        LET f == inv[i]
            keyword == TriggerKeyword(settings.trigger_keyword)
        IN  Started(f)
            => /\ f.calls[1] = [c |-> "settings.get", a |-> "auto_reply_enabled"]
               /\ \A g \in 1..Len(f.gates) : f.gates[g] = GateOrder[g]
               /\ \A k \in CallsOf(f, "reddit.getCurrentUser") :
                     /\ k = 2
                     /\ settings.auto_reply_enabled
                     /\ f.event.present
                     /\ Len(f.gates) >= 2
               /\ \A k \in KeywordReads(f) :
                     /\ k = 3
                     /\ CallsOf(f, "reddit.getCurrentUser") = {2}
                     /\ Len(f.gates) >= 3
               /\ \A k \in CallsOf(f, "generateAIResponse") :
                     /\ k = 4
                     /\ KeywordReads(f) = {3}
                     /\ f.gates = GateOrder
                     /\ ContainsAnyCase(Content(f.event), keyword)
                     /\ f.event.kind = "CommentCreate" => f.question # <<>>
               /\ \A g \in 1..5 :
                     f.stoppedAt = GateOrder[g]
                     => /\ Len(f.gates) = g - 1
                        /\ ~CalledGenerator(f)
                        /\ Len(f.calls) = (CASE g = 1 -> 1 [] g = 2 -> 1
                                             [] g = 3 -> 2 [] g = 4 -> 3
                                             [] g = 5 -> 4)
                        /\ g < 5 => f.pc = "done"

\* C17 witness: a comment went through all five gates and the generator was
\* called
C17_Witness_AllGatesThenGenerator ==
    /\ inv[1].pc = "done"
    /\ inv[1].event.kind = "CommentCreate"
    /\ inv[1].gates = GateOrder
    /\ CallsOf(inv[1], "generateAIResponse") = {4}

\* C18 (as claimed; Spec): an invocation that stops at any of the five gates
\* posts no reply, does not call the generator and leaves the counters alone.
C18_GateStopNoSideEffect ==
    \A i \in InvIds :
        inv[i].stoppedAt # ""
        => /\ ~CalledPosting(inv[i])
           /\ inv[i].posted = <<>>
           /\ ~CalledGenerator(inv[i])
           /\ inv[i].incremented = <<>>

\* C18 (amended; Spec): an invocation that stops at the feature, content,
\* self-authorship or keyword gate posts no reply, does not call the generator
\* and changes no counter and no history; one that stops at the question gate
\* (a comment with an empty question) submits the fixed prompt as its only
\* reply, does not call the generator and changes no counter and no history.
C18_GateStopOnlyPromptReply ==
    /\ [](\A i \in InvIds :
            LET f == inv[i]
            IN  /\ f.stoppedAt # ""
                   => /\ ~CalledGenerator(f)
                      /\ f.incremented = <<>>
                      /\ CallsOf(f, "redis.hIncrBy") = {}
                /\ f.stoppedAt \in {"feature", "content", "self", "keyword"}
                   => /\ ~CalledPosting(f)
                      /\ f.posted = <<>>
                /\ f.stoppedAt = "question"
                   => /\ f.event.kind = "CommentCreate"
                      /\ \A k \in CallsOf(f, "reddit.submitComment") :
                            f.calls[k].a =
                               [id |-> f.event.id,
                                text |-> "Please provide a question after the trigger keyword!"]
                      /\ Len(f.posted) <= 1
                      /\ \A k \in 1..Len(f.posted) :
                            f.posted[k].text =
                               "Please provide a question after the trigger keyword!")
    /\ [][\A i \in InvIds :
            inv'[i].stoppedAt # ""
            => /\ stats' = stats
               /\ zsets' = zsets
               /\ inv'[i].stoppedAt # "question" => replyCount' = replyCount]_vars

\* C18 witness: a comment that holds nothing but the keyword stopped at the
\* question gate with the prompt posted
C18_Witness_PromptPostedAtQuestionGate ==
    /\ inv[1].pc = "done"
    /\ inv[1].stoppedAt = "question"
    /\ inv[1].event.body = <<"!", "a", "s", "k">>
    /\ inv[1].posted = <<[id |-> "t1_comment", text |-> PromptReply]>>

\* C19 (as claimed; Spec): a post that passed gates 1-4 and whose title and
\* body are empty once every occurrence of the keyword is taken out and the
\* rest is trimmed is not answered with the fixed prompt: generateAIResponse
\* is called with the empty question.
C19_EmptyPostQuestionGoesToGenerator ==
    \A i \in InvIds :
        LET f == inv[i]
            keyword == TriggerKeyword(settings.trigger_keyword)
        IN  ( /\ Started(f)
              /\ f.event.kind = "PostSubmit"
              /\ ~AuthoredByApp(f.event)
              /\ PassedGate(f, "keyword")
              /\ trim(StripKeyword(Content(f.event), keyword)) = <<>> )
            => /\ \A k \in CallsOf(f, "reddit.submitComment") :
                     f.calls[k].a.text # PromptReply
               /\ \E k \in CallsOf(f, "generateAIResponse") :
                     f.calls[k].a = <<>>

\* C20 (Spec): a counter changes only in an invocation that has posted the
\* string generateAIResponse returned, and then by exactly 1, in the counter
\* of the event's kind; the prompt for a question, a gate exit and a failed
\* post change no counter.
C20_CounterOnlyAfterPostedReply ==
    /\ [](\A i \in InvIds :
            LET f == inv[i]
            IN  f.incremented # <<>>
                => /\ CallsOf(f, "generateAIResponse") # {}
                   /\ f.stoppedAt = ""
                   /\ f.aiResponse # ""
                   /\ f.posted = <<[id |-> f.event.id, text |-> f.aiResponse]>>
                   /\ f.event.kind = "PostSubmit"
                      => f.incremented = <<"posts_processed">>
                   /\ f.event.kind = "CommentCreate"
                      => f.incremented = <<"comments_processed">>)
    /\ [][stats' # stats
          => \E i \in InvIds :
                LET f == inv[i]
                IN  /\ f.pc = "hIncrBy"
                    /\ CallsOf(f, "generateAIResponse") # {}
                    /\ f.stoppedAt = ""
                    /\ f.posted = <<[id |-> f.event.id, text |-> f.aiResponse]>>
                    /\ f.event.kind = "PostSubmit"
                       => stats' = [stats EXCEPT !.posts_processed = @ + 1]
                    /\ f.event.kind = "CommentCreate"
                       => stats' = [stats EXCEPT !.comments_processed = @ + 1]]_vars

\* C20 witness: the first event, a post, was answered and counted; the comment
\* counter is untouched
C20_Witness_PostCounted ==
    /\ stats = [posts_processed |-> 1, comments_processed |-> 0]
    /\ inv[1].pc = "done"
    /\ inv[1].event.kind = "PostSubmit"
    /\ inv[1].incremented = <<"posts_processed">>

\* the strings generateAIResponse can return
GeneratorStrings ==
    { "Plants turn light into sugar.",
      "Unable to generate response.",
      "I'm sorry, I encountered an error processing your request. Please try again later.",
      "OpenAI API key not configured. Please contact the subreddit moderators.",
      "Anthropic API key not configured. Please contact the subreddit moderators." }

\* C21 (Spec): an invocation calls generateAIResponse at most once, with the
\* question extracted from its event; what it then submits, and what gets
\* posted, is one reply on the event's own id whose text is the string the
\* generator returned, a fallback string included.
C21_ReplyIsGeneratorResultOnOwnTarget ==
    \A i \in InvIds :
        LET f == inv[i]
            keyword == TriggerKeyword(settings.trigger_keyword)
        IN  /\ Cardinality(CallsOf(f, "generateAIResponse")) <= 1
            /\ \A k \in CallsOf(f, "generateAIResponse") :
                  /\ f.calls[k].a = ExtractQuestion(Content(f.event), keyword)
                  /\ f.calls[k].a = f.question
            /\ CallsOf(f, "generateAIResponse") # {}
               => /\ \A k \in CallsOf(f, "reddit.submitComment") :
                        /\ f.aiResponse \in GeneratorStrings
                        /\ f.calls[k].a = [id |-> f.event.id, text |-> f.aiResponse]
                  /\ f.posted # <<>>
                     => f.posted = <<[id |-> f.event.id, text |-> f.aiResponse]>>
                  /\ f.fetched = "text" => f.aiResponse = "Plants turn light into sugar."
                  /\ f.event.id = "t1_comment" <=> f.event.kind = "CommentCreate"

\* C21 witness: the provider sent no text; the fallback string was posted on
\* the comment
C21_Witness_FallbackPostedOnComment ==
    /\ inv[1].pc = "done"
    /\ inv[1].fetched = "empty text"
    /\ inv[1].posted = <<[id |-> "t1_comment", text |-> UnableReply]>>

\* the credential reads of invocation f
CredentialReads(f) ==
    {k \in CallsOf(f, "settings.get") :
        f.calls[k].a \in {"openai_key", "anthropic_key"}}

\* C22 (Spec): an invocation reads one credential and sends at most one
\* request, both of the provider the setting ai_provider names, OpenAI when
\* the setting is unset; the other provider's credential and endpoint stay
\* untouched.
C22_ExactlyTheConfiguredProvider ==
    \A i \in InvIds :
        LET f == inv[i]
            anthropic == settings.ai_provider = <<"anthropic">>
        IN  /\ Cardinality(CredentialReads(f)) <= 1
            /\ Cardinality(CallsOf(f, "fetch")) <= 1
            /\ \A k \in CredentialReads(f) :
                  f.calls[k].a = IF anthropic THEN "anthropic_key" ELSE "openai_key"
            /\ \A k \in CallsOf(f, "fetch") :
                  /\ CredentialReads(f) = {k - 1}
                  /\ f.calls[k].a.url =
                        IF anthropic THEN "https://api.anthropic.com/v1/messages"
                        ELSE "https://api.openai.com/v1/chat/completions"
                  /\ f.calls[k].a.key =
                        IF anthropic THEN settings.anthropic_key
                        ELSE settings.openai_key

\* C22 witness: both keys are set, Anthropic is selected and was contacted
C22_Witness_AnthropicContacted ==
    /\ settings.ai_provider = <<"anthropic">>
    /\ settings.openai_key # ""
    /\ settings.anthropic_key # ""
    /\ inv[1].pc = "done"
    /\ CallsOf(inv[1], "fetch") # {}
    /\ inv[1].fetched = "text"

\* C23 (as claimed; Spec): when the provider answers with a success status
\* and a payload without the generated text, generateAIResponse returns the
\* fixed apology.
C23_MalformedPayloadApology ==
    \A i \in InvIds :
        inv[i].fetched \in {"bad json", "no list", "empty list", "empty text"}
        => inv[i].aiResponse =
              "I'm sorry, I encountered an error processing your request. Please try again later."

\* C23 (amended; Spec): a payload that cannot be decoded or has no
\* choices/content list makes generateAIResponse log the failure and return
\* the apology; a payload whose list is empty or whose first element has no
\* text makes it return "Unable to generate response." without a log entry.
C23_MalformedPayloadFallbacks ==
    \A i \in InvIds :
        LET f == inv[i]
        IN  /\ f.fetched \in {"bad json", "no list"}
               => /\ f.aiResponse =
                        "I'm sorry, I encountered an error processing your request. Please try again later."
                  /\ GenerationErrorLogged(f)
            /\ f.fetched \in {"empty list", "empty text"}
               => /\ f.aiResponse = "Unable to generate response."
                  /\ ~GenerationErrorLogged(f)
                  /\ \E k \in CallsOf(f, "reddit.submitComment") :
                        f.calls[k].a.text = "Unable to generate response."

\* C23 witness: OpenAI answered with an empty choices list and the reply
\* "Unable to generate response." was posted
C23_Witness_EmptyListUnableReply ==
    /\ settings.ai_provider # <<"anthropic">>
    /\ inv[1].pc = "done"
    /\ inv[1].fetched = "empty list"
    /\ inv[1].posted = <<[id |-> inv[1].event.id, text |-> UnableReply]>>

\* the counter increment of the invocation failed
IncrementFailed(f) ==
    f.pc = "done" /\ CallsOf(f, "redis.hIncrBy") # {} /\ f.incremented = <<>>

\* C24 (LiveSpec): the store is touched only after the reply is posted; when
\* the counter increment fails the reply stays posted, the handler logs the
\* failure in its catch block, and the invocation comes to its end.
C24_StorageFailureAfterReply ==
    /\ [](\A i \in InvIds :
            LET f == inv[i]
            IN  /\ CallsOf(f, "redis.hIncrBy") # {}
                   => /\ f.posted = <<[id |-> f.event.id, text |-> f.aiResponse]>>
                      /\ replyCount[f.event.id] >= 1
                /\ IncrementFailed(f)
                   => /\ f.outcome = "caught"
                      /\ f.logs[Len(f.logs)] = <<"Error in trigger", f.event.kind>>)
    /\ \A i \in InvIds : inv[i].pc = "hIncrBy" ~> inv[i].pc = "done"

\* C24 witness: the generated reply is posted and the increment failed
C24_Witness_IncrementFailedReplyPosted ==
    /\ IncrementFailed(inv[1])
    /\ inv[1].posted = <<[id |-> inv[1].event.id, text |-> GeneratedText]>>
    /\ replyCount[inv[1].event.id] = 1
    /\ stats = [posts_processed |-> 0, comments_processed |-> 0]

\* C25 (as claimed; StoreSpec): with every Redis primitive atomic, appends
\* that overlap never evict more entries than it takes to return to 5: no
\* step of a storeConversation call takes a user's key from more than 5
\* entries to fewer than 5.
C25_OverlapNeverEvictsBelowFive ==
    [][\A u \in Users :
          zCard(zsets'[ConvKey(u)]) < zCard(zsets[ConvKey(u)])
          => zCard(zsets'[ConvKey(u)]) >= 5]_vars

(***************************************************************************)
(* Handler invocations that overlap: the host delivers an event while      *)
(* another invocation is still awaiting a collaborator.                    *)
(***************************************************************************)
\* an installation with the feature on and an OpenAI key
OverlapSettings ==
    [auto_reply_enabled |-> TRUE, trigger_keyword |-> <<>>,
     ai_provider |-> <<>>, openai_key |-> "sk-secret", anthropic_key |-> ""]

\* a comment with a question, a comment with the keyword alone, and a post
OverlapEvents ==
    {e \in CommentEvents :
        /\ e.author = "alice"
        /\ e.body \in { <<"!", "a", "s", "k", " ", "w">>, <<"!", "a", "s", "k">> }}
    \cup
    {e \in PostEvents :
        e.author = "t2_alice" /\ e.title = <<"w">> /\ e.body = <<"!", "A", "S", "K">>}

OverlapInit == StoreInit /\ PipeInit /\ settings = OverlapSettings

OverlapNext ==
    \/ \E i \in InvIds, e \in OverlapEvents : Deliver(i, e)
    \/ \E i \in InvIds : AutoReplyResult(i)
    \/ \E i \in InvIds : CurrentUserResult(i)
    \/ \E i \in InvIds : KeywordResult(i)
    \/ \E i \in InvIds : PromptResult(i)
    \/ \E i \in InvIds : GenProviderResult(i)
    \/ \E i \in InvIds : GenKeyResult(i)
    \/ \E i \in InvIds : GenFetchResult(i)
    \/ \E i \in InvIds : SubmitResult(i)
    \/ \E i \in InvIds : IncrResult(i)

OverlapSpec == OverlapInit /\ [][OverlapNext]_vars

\* the invocations of the given kind that posted the generator's string
PostedGenerated(kind) ==
    {i \in InvIds :
        /\ inv[i].event.kind = kind
        /\ CallsOf(inv[i], "generateAIResponse") # {}
        /\ inv[i].posted # <<>>}

\* the invocations of the given kind whose hIncrBy call succeeded
Incremented(kind) ==
    {i \in InvIds : inv[i].event.kind = kind /\ inv[i].incremented # <<>>}

\* C26 (as claimed; OverlapSpec): once the invocations are over, each counter
\* equals the number of invocations of its kind that posted a generated reply.
C26_CountersMatchPostedReplies ==
    (\A i \in InvIds : inv[i].pc \in {"idle", "done"})
    => /\ stats.comments_processed = Cardinality(PostedGenerated("CommentCreate"))
       /\ stats.posts_processed = Cardinality(PostedGenerated("PostSubmit"))

\* C26 (amended; OverlapSpec): under every interleaving each counter equals
\* the number of invocations of its kind whose hIncrBy call succeeded, and
\* each of these has posted a generated reply: no increment is lost and none
\* lands in the other counter.
C26_NoLostIncrement ==
    /\ stats.comments_processed = Cardinality(Incremented("CommentCreate"))
    /\ stats.posts_processed = Cardinality(Incremented("PostSubmit"))
    /\ Incremented("CommentCreate") \subseteq PostedGenerated("CommentCreate")
    /\ Incremented("PostSubmit") \subseteq PostedGenerated("PostSubmit")

\* C26 witness: two comment invocations were in flight together and both
\* increments arrived
C26_Witness_TwoCommentsCounted ==
    /\ \A i \in InvIds :
          /\ inv[i].pc = "done"
          /\ inv[i].event.kind = "CommentCreate"
          /\ inv[i].incremented = <<"comments_processed">>
    /\ \E i \in InvIds : inv[i].overlapped
    /\ stats.comments_processed = 2

(***************************************************************************)
(* Further claims about the conversation store                             *)
(***************************************************************************)
\* C27 (SeqStoreSpec): a storeConversation call for one user leaves the key,
\* and so the history, of every other user as it was; a user without an
\* append has the empty history.  (getConversationHistory issues one zRange
\* and no write.)
C27_HistoriesIsolatedPerUser ==
    /\ [](\A u \in UserIds :
            /\ (u \notin Users \/ recent[u] = <<>>)
               => getConversationHistory(u) = <<>>
            /\ \A k \in 1..Len(getConversationHistory(u)) :
                  \E e \in zsets[ConvKey(u)] :
                     Parse(e.member) = getConversationHistory(u)[k])
    /\ [][/\ \A v \in Users :
                recent'[v] = recent[v]
                => zsets'[ConvKey(v)] = zsets[ConvKey(v)]
          /\ \A v \in UserIds \ Users :
                zsets'[ConvKey(v)] = zsets[ConvKey(v)]
          /\ Cardinality({v \in UserIds :
                            zsets'[ConvKey(v)] # zsets[ConvKey(v)]}) <= 1]_vars

\* C27 witness: one user holds a full history while the other holds a single
\* entry
C27_Witness_TwoUsersApartHistories ==
    /\ Len(getConversationHistory("alice")) = 5
    /\ Len(getConversationHistory("t2_alice")) = 1
    /\ getConversationHistory("redditor-agent") = <<>>

(***************************************************************************)
(* The pipeline over a store that already holds a conversation             *)
(***************************************************************************)
\* the entry an earlier storeConversation(ctx, 'alice', 'a', 'x') left
SeededMember == Stringify(1, <<"a">>, <<"x">>)

\* the store before the first event: empty, or after that one call
HistInit ==
    /\ PipeInit
    /\ settings \in {s \in SettingsSpace : s.auto_reply_enabled}
    /\ now = 1
    /\ ap = [a \in AppendIds |-> IdleAppend]
    /\ untrimmed = [u \in Users |-> 0]
    /\ \E seeded \in BOOLEAN :
          /\ nAppends = IF seeded THEN 1 ELSE 0
          /\ recent = [u \in Users |->
                         IF seeded /\ u = "alice" THEN <<SeededMember>> ELSE <<>>]
          /\ zsets = [k \in {ConvKey(u) : u \in UserIds} |->
                        IF seeded /\ k = ConvKey("alice")
                        THEN storeConversation({}, 1, SeededMember) ELSE {}]

HistSpec == HistInit /\ [][Next]_vars

\* the collaborators a handler and generateAIResponse call
PipelineCollaborators ==
    {"settings.get", "reddit.getCurrentUser", "generateAIResponse", "fetch",
     "reddit.submitComment", "redis.hIncrBy"}

\* C28 (HistSpec): whatever the store holds, the request generateAIResponse
\* sends is made of the system prompt and the question alone, and the
\* invocation neither reads nor changes a conversation key.
C28_RequestIndependentOfHistory ==
    /\ [](\A i \in InvIds :
            LET f == inv[i]
            IN  /\ \A k \in 1..Len(f.calls) : f.calls[k].c \in PipelineCollaborators
                /\ \A k \in CallsOf(f, "fetch") :
                      IF settings.ai_provider = <<"anthropic">>
                      THEN f.calls[k].a =
                             [url |-> "https://api.anthropic.com/v1/messages",
                              key |-> settings.anthropic_key,
                              body |-> [model |-> "claude-3-sonnet-20240229",
                                        max_tokens |-> 500,
                                        system |-> SYSTEM_PROMPT,
                                        messages |-> <<[role |-> "user",
                                                        content |-> f.question]>>]]
                      ELSE /\ f.calls[k].a.url = "https://api.openai.com/v1/chat/completions"
                           /\ f.calls[k].a.key = settings.openai_key
                           /\ f.calls[k].a.body.messages =
                                 <<[role |-> "system", content |-> SYSTEM_PROMPT],
                                   [role |-> "user", content |-> f.question]>>)
    /\ [][zsets' = zsets]_vars

\* C28 witness: alice has a stored conversation and her comment was answered
\* by the provider
C28_Witness_StoredHistoryAndAnswer ==
    /\ zsets[ConvKey("alice")] # {}
    /\ inv[1].pc = "done"
    /\ inv[1].event.author = "alice"
    /\ inv[1].fetched = "text"
    /\ settings.ai_provider # <<"anthropic">>

\* an event of OverlapEvents that carries a question
HasQuestion(e) ==
    e.kind = "PostSubmit" \/ e.body = <<"!", "a", "s", "k", " ", "w">>

\* C29 (OverlapSpec): the same eligible event delivered twice, one delivery
\* after the other or overlapping, is handled twice: when both invocations
\* return without a failure, each has called the generator, posted its reply
\* on the same id and incremented the counter, so 2 replies and 2 increments
\* result.
C29_RedeliveryHandledAgain ==
    ( /\ \A i \in InvIds : inv[i].pc = "done" /\ inv[i].outcome = "returned"
      /\ inv[1].event = inv[2].event
      /\ HasQuestion(inv[1].event) )
    => /\ \A i \in InvIds :
             /\ Cardinality(CallsOf(inv[i], "generateAIResponse")) = 1
             /\ inv[i].posted =
                   <<[id |-> inv[i].event.id, text |-> inv[i].aiResponse]>>
             /\ Len(inv[i].incremented) = 1
       /\ replyCount[inv[1].event.id] = 2
       /\ IF inv[1].event.kind = "CommentCreate"
          THEN stats = [posts_processed |-> 0, comments_processed |-> 2]
          ELSE stats = [posts_processed |-> 2, comments_processed |-> 0]

\* C29 witness: the same comment went through two overlapping invocations and
\* has two replies
C29_Witness_SameCommentRepliedTwice ==
    /\ \A i \in InvIds : inv[i].pc = "done" /\ inv[i].outcome = "returned"
    /\ inv[1].event = inv[2].event
    /\ inv[1].event.kind = "CommentCreate"
    /\ HasQuestion(inv[1].event)
    /\ inv[2].overlapped
    /\ replyCount["t1_comment"] = 2
    /\ stats.comments_processed = 2

(***************************************************************************)
(* storeConversation under a wall clock that may be set back: Date.now()   *)
(* is not monotonic.                                                       *)
(***************************************************************************)
SkewStoreNext ==
    \E q \in Questions, r \in Answers, elapsed \in {-1, 0, 1} :
        StoreConversation(ContendedUser, q, r, elapsed)

SkewStoreSpec == InstalledInit /\ [][SkewStoreNext]_vars

\* the sorted-set element of a serialized entry
EntryOf(member) == [score |-> member[1], member |-> member]

AppInstall ==
    /\ \E outcome \in {"runJob rejects", "hSet rejects", "installed"} :
          stats' = IF outcome = "installed"
                   THEN hSet(stats, [posts_processed |-> 0, comments_processed |-> 0])
                   ELSE stats
    /\ UNCHANGED <<settings, inv, replyCount, delivered>>
    /\ UNCHANGED storeVars

InstallInit == StoreInit /\ PipeInit /\ settings = OverlapSettings

InstallNext == Next \/ AppInstall

InstallSpec == InstallInit /\ [][InstallNext]_vars

\* C31 (InstallSpec): no step of a Post or Comment handler lowers a counter;
\* a step that lowers one is a step of the AppInstall handler and leaves both
\* counters at 0.
C31_OnlyInstallLowersCounters ==
    [][/\ inv' # inv
          => /\ stats'.posts_processed >= stats.posts_processed
             /\ stats'.comments_processed >= stats.comments_processed
       /\ ( \/ stats'.posts_processed < stats.posts_processed
            \/ stats'.comments_processed < stats.comments_processed )
          => /\ inv' = inv
             /\ stats'.posts_processed = 0
             /\ stats'.comments_processed = 0]_vars

\* C31 witness: a post and a comment were counted and a later AppInstall set
\* the counters back to 0
C31_Witness_CountedThenReinstalled ==
    /\ stats = [posts_processed |-> 0, comments_processed |-> 0]
    /\ replyCount["t3_post"] = 1
    /\ replyCount["t1_comment"] = 1
    /\ inv[1].pc = "done"
    /\ inv[1].incremented # <<>>

\* the system prompt a request body carries: the system field of an Anthropic
\* body, the content of the system message of an OpenAI body
SystemPromptOf(body) ==
    IF "system" \in DOMAIN body
    THEN {body.system}
    ELSE {m.content : m \in {n \in Range(body.messages) : n.role = "system"}}

\* the user messages of a request body, in order
UserMessagesOf(body) ==
    SelectSeq(body.messages, LAMBDA m : m.role = "user")

\* C32 (Spec): every request sent to a provider, OpenAI or Anthropic, carries
\* the fixed system prompt, the question as its only user message, an output
\* cap of 500 and a sampling temperature of 0.7.
C32_EveryRequestCarriesFixedParameters ==
    \A i \in InvIds :
       \A k \in CallsOf(inv[i], "fetch") :
          LET body == inv[i].calls[k].a.body
          IN  /\ SystemPromptOf(body) = {SYSTEM_PROMPT}
              /\ UserMessagesOf(body) =
                    <<[role |-> "user", content |-> inv[i].question]>>
              /\ body.max_tokens = 500
              /\ "temperature" \in DOMAIN body
              /\ body.temperature = "0.7"

====
